---- MODULE Spec2Model ----
(***************************************************************************)
(* Availability accounting and borrowing state transitions of the library *)
(* catalog application: the books / borrowing_records tables with their    *)
(* CHECK constraints and row-level-security policies, the two counter      *)
(* procedures, and the client handlers that drive them.  Every handler     *)
(* that issues two requests to the store is two steps here, because the    *)
(* store is the only synchronisation point between clients.                *)
(***************************************************************************)
EXTENDS Integers, FiniteSets, Sequences, TLC

(* ------------------------------ bounds -------------------------------- *)
MaxRecords == 2
MaxCopies == 1
MaxReservations == 2

(* ----------------------------- universe ------------------------------- *)
Actors == {"s1", "l1", "l2"}
NewAccounts == {"n1"}
Roles == {"student", "librarian", "admin"}
BookIds == {"b1", "b2"}
RecIds == 1..MaxRecords
ResIds == 1..MaxReservations
NULL == "NULL"
NoDate == -1

borrowing_status == {"pending", "approved", "rejected", "active", "returned", "overdue"}
reservation_status == {"active", "fulfilled", "cancelled", "expired"}

VARIABLES
  books,              \* public.books: id -> row, for the ids inserted (migration 37-62)
  borrowing_records,  \* public.borrowing_records: id -> row, for the ids inserted (migration 65-80)
  user_roles,         \* public.user_roles: account -> set of roles, for the accounts in auth.users
  profiles,           \* public.profiles: the ids of its rows
  reservations,       \* public.reservations: id -> row, for the ids inserted (migration 83-94)
  myReservations,     \* Dashboard `reservations` state of each client: the listed row it acts on
  now,                \* wall clock, in days
  book,               \* BookDetail `book` state of each client (snapshot)
  borrowings,         \* `borrowings` state of each client: the listed row it acts on (snapshot)
  pc,                 \* position of each client inside a two-request handler
  call,               \* arguments of the handler call in progress, and what it found when it started
  toast               \* the toast shown last

vars == <<books, borrowing_records, user_roles, profiles, reservations, myReservations, now, book, borrowings, pc, call, toast>>

(* ------------------------------ helpers ------------------------------- *)
GREATEST(x, y) == IF x >= y THEN x ELSE y
LEAST(x, y) == IF x <= y THEN x ELSE y

\* the sessions: one browser session per account, and a second one ("s1b", another
\* tab or device) of the student; user(c) is the account a session is signed in to
Clients == Actors \cup {"s1b"}
user(c) == IF c = "s1b" THEN "s1" ELSE c

\* has_role(_user_id, _role): EXISTS (... FROM user_roles WHERE user_id = _user_id AND role = _role)
has_role(_user_id, _role) == _user_id \in DOMAIN user_roles /\ _role \in user_roles[_user_id]

is_staff(uid) == has_role(uid, "librarian") \/ has_role(uid, "admin")

(* --------------------------- table constraints ------------------------ *)
\* the table with its second CHECK alone
books_check_nonnegative(row) == row.available_copies >= 0

\* CHECK (available_copies <= total_copies), CHECK (available_copies >= 0)
books_check(row) == row.available_copies <= row.total_copies /\ row.available_copies >= 0

(* --------------------------- row level security ----------------------- *)
\* "Librarians and admins can insert books" / "... can update books"
books_insert_check(uid) == is_staff(uid)
books_update_using(uid) == is_staff(uid)

\* "Anyone can view books"
books_select_using(uid) == TRUE

\* the DELETE policy with the condition of the UPDATE policy
books_delete_using_staff(uid) == is_staff(uid)

\* "Admins can delete books"
books_delete_using(uid) == has_role(uid, "admin")

\* "Users can view their own roles" OR "Admins can manage all roles" (FOR ALL covers SELECT)
user_roles_select_using(uid, user_id) == uid = user_id \/ has_role(uid, "admin")

\* the FOR ALL policy open to librarians too
user_roles_manage_using_staff(uid) == is_staff(uid)

\* "Admins can manage all roles": FOR ALL, its USING also the check of new rows
user_roles_manage_using(uid) == has_role(uid, "admin")

\* "Users can view their own borrowing records" OR "Librarians and admins can view all ..."
borrowing_records_select_using(uid, row) == uid = row.user_id \/ is_staff(uid)

\* the policy without its condition on the status
borrowing_records_insert_check_owner(uid, row) == uid = row.user_id

\* "Authenticated users can create borrowing requests"
borrowing_records_insert_check(uid, row) == uid = row.user_id /\ row.status = "pending"

\* "Users can update their own borrowing records" OR "Librarians and admins can update all ..."
borrowing_records_update_using(uid, row) == uid = row.user_id \/ is_staff(uid)

\* "Users can view their own reservations" OR "Librarians and admins can view all reservations"
reservations_select_using(uid, row) == uid = row.user_id \/ is_staff(uid)

\* "Authenticated users can create reservations"
reservations_insert_check(uid, row) == uid = row.user_id

\* "Users can cancel their own reservations" OR "Librarians and admins can update all reservations"
reservations_update_using(uid, row) == uid = row.user_id \/ is_staff(uid)

\* the table without its UNIQUE constraint
reservations_unique_off(rows, id, row) == TRUE

\* UNIQUE(user_id, book_id, status): no row other than id has the triple of row
reservations_unique(rows, id, row) ==
  \A o \in DOMAIN rows \ {id} :
    <<rows[o].user_id, rows[o].book_id, rows[o].status>> # <<row.user_id, row.book_id, row.status>>

(* --------------------------- counter procedures ----------------------- *)
\* a decrement without its floor
decrement_unclamped(bs, book_id) ==
  IF book_id \in DOMAIN bs
    THEN [bs EXCEPT ![book_id].available_copies = @ - 1]
    ELSE bs

\* UPDATE books SET available_copies = GREATEST(available_copies - 1, 0) WHERE id = book_id
decrement_available_copies(bs, book_id) ==
  IF book_id \in DOMAIN bs
    THEN [bs EXCEPT ![book_id].available_copies = GREATEST(@ - 1, 0)]
    ELSE bs

\* UPDATE books SET available_copies = LEAST(available_copies + 1, total_copies) WHERE id = book_id
increment_available_copies(bs, book_id) ==
  IF book_id \in DOMAIN bs
    THEN [bs EXCEPT ![book_id].available_copies = LEAST(@ + 1, bs[book_id].total_copies)]
    ELSE bs

(* ------------------------------ rows ---------------------------------- *)
\* a borrowing_records row as the column defaults make it (status 'pending',
\* renewal_count 0, every nullable column NULL)
new_record(uid, book_id, status) ==
  [status |-> status, user_id |-> uid, book_id |-> book_id,
   approved_by |-> NULL, approval_date |-> NoDate,
   borrow_date |-> NoDate, due_date |-> NoDate, renewal_count |-> 0]

\* gen_random_uuid(): an id no row has yet
FreeRecIds == RecIds \ DOMAIN borrowing_records
next_record_id == CHOOSE i \in FreeRecIds : \A j \in FreeRecIds : i <= j

\* The row of the fetched list that the user acts on, as the client keeps it.  A
\* handler reads exactly one row of the list, so one row per client is kept; a row
\* the SELECT policies hide from the caller is not in the list.
NoRow == [id |-> 0, status |-> "none", due_date |-> NoDate, renewal_count |-> 0]
listed_row(recs, uid, r) ==
  IF r \in DOMAIN recs /\ borrowing_records_select_using(uid, recs[r])
    THEN [id |-> r, status |-> recs[r].status, due_date |-> recs[r].due_date,
          renewal_count |-> recs[r].renewal_count]
    ELSE NoRow

NoBookView == [id |-> NULL, available_copies |-> 0, requires_approval |-> FALSE]
book_view(bs, b) ==
  [id |-> b, available_copies |-> bs[b].available_copies,
   requires_approval |-> bs[b].requires_approval]

\* a row of the Dashboard's reservation list (active reservations of the user)
NoReservation == [id |-> 0, status |-> "none"]

NoCall == [op |-> "none", recordId |-> 0, bookId |-> NULL, status0 |-> "none", avail0 |-> 0]

\* UPDATE borrowing_records SET <patch> WHERE id = recordId, under the UPDATE policies:
\* a row the caller may not update is not touched and no error is raised
update_record(recs, uid, recordId, patched) ==
  IF recordId \in DOMAIN recs /\ borrowing_records_update_using(uid, recs[recordId])
    THEN [recs EXCEPT ![recordId] = patched]
    ELSE recs

(* ------------------------------- Init --------------------------------- *)
\* the seeded catalog, scaled down to one title that needs approval
\* ('Deep Learning Research Papers Collection': 1 copy, 1 available, requires_approval)
InitBooks ==
  "b1" :> [total_copies |-> 1, available_copies |-> 1, requires_approval |-> TRUE, max_borrow_days |-> 1]

\* handle_new_user grants student to every account; staff roles were added by an admin
InitRoles ==
  ("s1" :> {"student"}) @@ ("l1" :> {"student", "librarian"}) @@ ("l2" :> {"student", "admin"})

\* the accounts signed up, no record, no reservation, every page not loaded yet, no call in progress
InitRest ==
  /\ borrowing_records = <<>>
  /\ user_roles = InitRoles
  /\ profiles = DOMAIN InitRoles
  /\ reservations = <<>>
  /\ myReservations = [c \in Clients |-> NoReservation]
  /\ now = 0
  /\ book = [c \in Clients |-> NoBookView]
  /\ borrowings = [c \in Clients |-> NoRow]
  /\ pc = [c \in Clients |-> "idle"]
  /\ call = [c \in Clients |-> NoCall]
  /\ toast = "none"

Init == books = InitBooks /\ InitRest

(* ------------------------------ BookDetail ---------------------------- *)
\* fetchBook: SELECT * FROM books WHERE id = :id ("Anyone can view books")
fetchBook(c, b) ==
  /\ pc[c] = "idle"
  /\ b \in DOMAIN books
  /\ book' = [book EXCEPT ![c] = book_view(books, b)]
  /\ UNCHANGED <<books, borrowing_records, user_roles, profiles, reservations, myReservations, now, borrowings, pc, call, toast>>

isAvailable(bv) == bv.available_copies > 0

\* a request that is never held for approval
borrow_status_active(requires_approval) == "active"

\* status: book.requires_approval ? 'pending' : 'active'
borrow_status(requires_approval) == IF requires_approval THEN "pending" ELSE "active"

\* handleBorrow: one INSERT into borrowing_records, then fetchBook() on success.
\* The button that calls it is rendered only while the loaded book isAvailable.
handleBorrow(c) ==
  /\ pc[c] = "idle"
  /\ book[c].id \in DOMAIN books
  /\ isAvailable(book[c])
  /\ user(c) # NULL
  /\ LET b == book[c].id
         row == new_record(user(c), b, borrow_status(book[c].requires_approval))
     IN IF borrowing_records_insert_check(user(c), row)
          THEN /\ FreeRecIds # {}
               /\ borrowing_records' = (next_record_id :> row) @@ borrowing_records
               /\ toast' = "Success"
               /\ book' = [book EXCEPT ![c] = book_view(books, b)]
          ELSE /\ toast' = "RowLevelSecurity"
               /\ UNCHANGED <<borrowing_records, book>>
  /\ UNCHANGED <<books, user_roles, profiles, reservations, myReservations, now, borrowings, pc, call>>

(* ------------------------ BorrowingManagement ------------------------- *)
\* useEffect gate: the page loads only for userRole librarian or admin
staff_page(c) == user(c) # NULL /\ is_staff(user(c))

\* fetchBorrowings: SELECT *, books(*), profiles(*) FROM borrowing_records
fetchBorrowings(c, r) ==
  /\ pc[c] = "idle"
  /\ staff_page(c)
  /\ r \in DOMAIN borrowing_records
  /\ borrowings' = [borrowings EXCEPT ![c] = listed_row(borrowing_records, user(c), r)]
  /\ UNCHANGED <<books, borrowing_records, user_roles, profiles, reservations, myReservations, now, book, pc, call, toast>>

start_call(c, op, r) ==
  [op |-> op, recordId |-> r, bookId |-> borrowing_records[r].book_id,
   status0 |-> borrowing_records[r].status,
   avail0 |-> books[borrowing_records[r].book_id].available_copies]

\* an approval that hands the book out without a loan period
approve_patch_due_at_once(row, uid, borrowDate, dueDate) ==
  [row EXCEPT !.status = "active", !.approved_by = uid, !.approval_date = borrowDate,
              !.borrow_date = borrowDate, !.due_date = borrowDate]

approve_patch(row, uid, borrowDate, dueDate) ==
  [row EXCEPT !.status = "active", !.approved_by = uid, !.approval_date = borrowDate,
              !.borrow_date = borrowDate, !.due_date = dueDate]

\* handleApprove, first request: UPDATE borrowing_records SET status = 'active', ... WHERE id = recordId
handleApprove_update(c, r) ==
  /\ pc[c] = "idle"
  /\ staff_page(c)
  /\ borrowings[c].id = r
  /\ borrowings[c].status = "pending"
  /\ LET maxBorrowDays == books[borrowing_records[r].book_id].max_borrow_days
     IN borrowing_records' = update_record(borrowing_records, user(c), r,
            approve_patch(borrowing_records[r], user(c), now, now + maxBorrowDays))
  /\ call' = [call EXCEPT ![c] = start_call(c, "approve", r)]
  /\ pc' = [pc EXCEPT ![c] = "approve_rpc"]
  /\ UNCHANGED <<books, user_roles, profiles, reservations, myReservations, now, book, borrowings, toast>>

\* handleApprove, second request: rpc('decrement_available_copies'); a failed request
\* (bookError) is thrown and reported, the first request is not undone
handleApprove_rpc(c, ok) ==
  /\ pc[c] = "approve_rpc"
  /\ IF ok
       THEN /\ books' = decrement_available_copies(books, call[c].bookId)
            /\ toast' = "Success"
            /\ borrowings' = [borrowings EXCEPT ![c] = listed_row(borrowing_records, user(c), call[c].recordId)]
       ELSE /\ toast' = "Failed"
            /\ UNCHANGED <<books, borrowings>>
  /\ pc' = [pc EXCEPT ![c] = "idle"]
  /\ call' = [call EXCEPT ![c] = NoCall]
  /\ UNCHANGED <<borrowing_records, user_roles, profiles, reservations, myReservations, now, book>>

reject_patch(row, uid, date) ==
  [row EXCEPT !.status = "rejected", !.approved_by = uid, !.approval_date = date]

\* handleReject: UPDATE borrowing_records SET status = 'rejected', ... WHERE id = recordId
handleReject(c, r) ==
  /\ pc[c] = "idle"
  /\ staff_page(c)
  /\ borrowings[c].id = r
  /\ borrowings[c].status = "pending"
  /\ borrowing_records' = update_record(borrowing_records, user(c), r,
                             reject_patch(borrowing_records[r], user(c), now))
  /\ toast' = "Success"
  /\ borrowings' = [borrowings EXCEPT ![c] = listed_row(borrowing_records', user(c), r)]
  /\ UNCHANGED <<books, user_roles, profiles, reservations, myReservations, now, book, pc, call>>

return_patch(row) == [row EXCEPT !.status = "returned"]

\* BorrowingManagement.handleReturn, first request: UPDATE ... SET status = 'returned', return_date
staff_handleReturn_update(c, r) ==
  /\ pc[c] = "idle"
  /\ staff_page(c)
  /\ borrowings[c].id = r
  /\ borrowings[c].status = "active"
  /\ borrowing_records' = update_record(borrowing_records, user(c), r, return_patch(borrowing_records[r]))
  /\ call' = [call EXCEPT ![c] = start_call(c, "staff_return", r)]
  /\ pc' = [pc EXCEPT ![c] = "staff_return_rpc"]
  /\ UNCHANGED <<books, user_roles, profiles, reservations, myReservations, now, book, borrowings, toast>>

\* BorrowingManagement.handleReturn, second request: rpc('increment_available_copies')
staff_handleReturn_rpc(c, ok) ==
  /\ pc[c] = "staff_return_rpc"
  /\ IF ok
       THEN /\ books' = increment_available_copies(books, call[c].bookId)
            /\ toast' = "Success"
            /\ borrowings' = [borrowings EXCEPT ![c] = listed_row(borrowing_records, user(c), call[c].recordId)]
       ELSE /\ toast' = "Failed"
            /\ UNCHANGED <<books, borrowings>>
  /\ pc' = [pc EXCEPT ![c] = "idle"]
  /\ call' = [call EXCEPT ![c] = NoCall]
  /\ UNCHANGED <<borrowing_records, user_roles, profiles, reservations, myReservations, now, book>>

(* --------------------------- MyBorrowings ----------------------------- *)
OwnRows(c) == {i \in DOMAIN borrowing_records : borrowing_records[i].user_id = user(c)}

\* fetchMyBorrowings / fetchUserData: SELECT ... WHERE user_id = user.id
fetchMyBorrowings(c, r) ==
  /\ pc[c] = "idle"
  /\ user(c) # NULL
  /\ r \in OwnRows(c)
  /\ borrowings' = [borrowings EXCEPT ![c] = listed_row(borrowing_records, user(c), r)]
  /\ UNCHANGED <<books, borrowing_records, user_roles, profiles, reservations, myReservations, now, book, pc, call, toast>>

\* MyBorrowings.handleReturn, first request
owner_handleReturn_update(c, r) ==
  /\ pc[c] = "idle"
  /\ user(c) # NULL
  /\ borrowings[c].id = r
  /\ r \in OwnRows(c)
  /\ borrowings[c].status = "active"
  /\ borrowing_records' = update_record(borrowing_records, user(c), r, return_patch(borrowing_records[r]))
  /\ call' = [call EXCEPT ![c] = start_call(c, "owner_return", r)]
  /\ pc' = [pc EXCEPT ![c] = "owner_return_rpc"]
  /\ UNCHANGED <<books, user_roles, profiles, reservations, myReservations, now, book, borrowings, toast>>

\* MyBorrowings.handleReturn, second request: the rpc result is not inspected,
\* success is reported and the list is fetched again whatever it was
owner_handleReturn_rpc(c, ok) ==
  /\ pc[c] = "owner_return_rpc"
  /\ books' = IF ok THEN increment_available_copies(books, call[c].bookId) ELSE books
  /\ toast' = "Success"
  /\ borrowings' = [borrowings EXCEPT ![c] = listed_row(borrowing_records, user(c), call[c].recordId)]
  /\ pc' = [pc EXCEPT ![c] = "idle"]
  /\ call' = [call EXCEPT ![c] = NoCall]
  /\ UNCHANGED <<borrowing_records, user_roles, profiles, reservations, myReservations, now, book>>

(* ------------------------------ Dashboard ----------------------------- *)
\* an update that counts on from the stored renewal_count
renew_patch_counting(row, newDueDate, count) ==
  [row EXCEPT !.due_date = newDueDate, !.renewal_count = @ + 1]

renew_patch(row, newDueDate, count) == [row EXCEPT !.due_date = newDueDate, !.renewal_count = count]

\* handleRenew: reads the record from the client's list, one UPDATE, then fetchUserData()
handleRenew(c, r) ==
  /\ pc[c] = "idle"
  /\ user(c) # NULL
  /\ borrowings[c].id = r
  /\ r \in OwnRows(c)
  /\ borrowings[c].status = "active"
  /\ LET record == borrowings[c]
         days == books[borrowing_records[r].book_id].max_borrow_days
     IN IF record.renewal_count >= 2
          THEN /\ toast' = "CannotRenew"
               /\ UNCHANGED <<borrowing_records, borrowings>>
          ELSE /\ borrowing_records' = update_record(borrowing_records, user(c), r,
                     renew_patch(borrowing_records[r], record.due_date + days, record.renewal_count + 1))
               /\ toast' = "Success"
               /\ borrowings' = [borrowings EXCEPT ![c] = listed_row(borrowing_records', user(c), r)]
  /\ UNCHANGED <<books, user_roles, profiles, reservations, myReservations, now, book, pc, call>>

(* ----------------------------- reservations --------------------------- *)
\* a reservations row (its dates play no part in any rule of the store)
new_reservation(uid, book_id, status) == [user_id |-> uid, book_id |-> book_id, status |-> status]

FreeResIds == ResIds \ DOMAIN reservations
next_reservation_id == CHOOSE i \in FreeResIds : \A j \in FreeResIds : i <= j

\* INSERT INTO reservations under the INSERT policy and the UNIQUE constraint:
\* "ok" with the new table, or the error and the table as it was
insert_reservation(rows, uid, row) ==
  IF ~reservations_insert_check(uid, row)
    THEN [result |-> "RowLevelSecurity", rows |-> rows]
    ELSE IF ~reservations_unique(rows, 0, row)
      THEN [result |-> "UniqueViolation", rows |-> rows]
      ELSE [result |-> "ok", rows |-> (next_reservation_id :> row) @@ rows]

\* a store that marks the row fulfilled whatever status is asked for
update_reservation_fulfil(rows, uid, v, status) ==
  IF v \in DOMAIN rows
    THEN [result |-> "ok", rows |-> [rows EXCEPT ![v].status = "fulfilled"]]
    ELSE [result |-> "ok", rows |-> rows]

\* UPDATE reservations SET status WHERE id = v under the UPDATE policies and the
\* UNIQUE constraint; a row the caller may not update is not touched, without error
update_reservation(rows, uid, v, status) ==
  IF ~(v \in DOMAIN rows /\ reservations_update_using(uid, rows[v]))
    THEN [result |-> "ok", rows |-> rows]
    ELSE LET row == [rows[v] EXCEPT !.status = status]
         IN IF ~reservations_unique(rows, v, row)
              THEN [result |-> "UniqueViolation", rows |-> rows]
              ELSE [result |-> "ok", rows |-> [rows EXCEPT ![v] = row]]

\* the row of the Dashboard's list the user acts on: the list holds the user's
\* reservations with status active
listed_reservation(rows, uid, v) ==
  IF /\ v \in DOMAIN rows
     /\ reservations_select_using(uid, rows[v])
     /\ rows[v].user_id = uid /\ rows[v].status = "active"
    THEN [id |-> v, status |-> rows[v].status]
    ELSE NoReservation

\* BookDetail.handleReserve: one INSERT (status defaults to 'active'); the button
\* that calls it is rendered only while the loaded book is not isAvailable
handleReserve(c) ==
  /\ pc[c] = "idle"
  /\ book[c].id \in DOMAIN books
  /\ ~isAvailable(book[c])
  /\ user(c) # NULL
  /\ FreeResIds # {}
  /\ LET ins == insert_reservation(reservations, user(c), new_reservation(user(c), book[c].id, "active"))
     IN /\ reservations' = ins.rows
        /\ toast' = IF ins.result = "ok" THEN "Success" ELSE ins.result
  /\ UNCHANGED <<books, borrowing_records, user_roles, profiles, myReservations, now, book, borrowings, pc, call>>

\* Dashboard.fetchUserData: the user's borrowing records and active reservations
fetchUserData(c, v) ==
  /\ pc[c] = "idle"
  /\ user(c) # NULL
  /\ v \in DOMAIN reservations
  /\ myReservations' = [myReservations EXCEPT ![c] = listed_reservation(reservations, user(c), v)]
  /\ borrowings' = [borrowings EXCEPT ![c] =
                      IF borrowings[c].id \in OwnRows(c)
                        THEN listed_row(borrowing_records, user(c), borrowings[c].id)
                        ELSE NoRow]
  /\ UNCHANGED <<books, borrowing_records, user_roles, profiles, reservations, now, book, pc, call, toast>>

\* Dashboard.handleCancelReservation: UPDATE reservations SET status = 'cancelled'
\* WHERE id = reservationId, then fetchUserData() on success
handleCancelReservation(c, v) ==
  /\ pc[c] = "idle"
  /\ user(c) # NULL
  /\ myReservations[c].id = v
  /\ LET upd == update_reservation(reservations, user(c), v, "cancelled")
     IN /\ reservations' = upd.rows
        /\ IF upd.result = "ok"
             THEN /\ toast' = "Success"
                  /\ myReservations' = [myReservations EXCEPT ![c] = listed_reservation(upd.rows, user(c), v)]
             ELSE /\ toast' = "Failed"
                  /\ UNCHANGED myReservations
  /\ UNCHANGED <<books, borrowing_records, user_roles, profiles, now, book, borrowings, pc, call>>

\* supabase.from('reservations').insert / .update sent by a signed-in client with
\* values of its choice
reservations_insert(c, uid, b, status) ==
  /\ pc[c] = "idle"
  /\ b \in DOMAIN books
  /\ FreeResIds # {}
  /\ reservations' = insert_reservation(reservations, user(c), new_reservation(uid, b, status)).rows
  /\ UNCHANGED <<books, borrowing_records, user_roles, profiles, myReservations, now, book, borrowings, pc, call, toast>>

reservations_update(c, v, status) ==
  /\ pc[c] = "idle"
  /\ reservations' = update_reservation(reservations, user(c), v, status).rows
  /\ UNCHANGED <<books, borrowing_records, user_roles, profiles, myReservations, now, book, borrowings, pc, call, toast>>

(* ------------------------------- accounts ----------------------------- *)
\* handle_new_user, fired by on_auth_user_created: a profiles row and the student role
on_auth_user_created(u) ==
  /\ u \notin DOMAIN user_roles
  /\ profiles' = profiles \cup {u}
  /\ user_roles' = (u :> {"student"}) @@ user_roles
  /\ UNCHANGED <<books, borrowing_records, reservations, myReservations, now, book, borrowings, pc, call, toast>>

\* INSERT INTO user_roles (user_id, role) under the FOR ALL policy and UNIQUE(user_id, role)
insert_role(rows, uid, u, role) ==
  IF ~user_roles_manage_using(uid)
    THEN [result |-> "RowLevelSecurity", rows |-> rows]
    ELSE IF role \in rows[u]
      THEN [result |-> "UniqueViolation", rows |-> rows]
      ELSE [result |-> "ok", rows |-> [rows EXCEPT ![u] = @ \cup {role}]]

\* DELETE FROM user_roles WHERE user_id = u AND role = role under the FOR ALL policy;
\* rows the caller may not delete are not touched, without error
delete_role(rows, uid, u, role) ==
  IF ~user_roles_manage_using(uid)
    THEN [result |-> "ok", rows |-> rows]
    ELSE [result |-> "ok", rows |-> [rows EXCEPT ![u] = @ \ {role}]]

\* the Admin page leaves unless userRole is admin
admin_page(c) == user(c) # NULL /\ has_role(user(c), "admin")

\* Admin.handleRoleChange: one INSERT into user_roles
handleRoleChange(c, u, role) ==
  /\ pc[c] = "idle"
  /\ admin_page(c)
  /\ u \in profiles /\ u \in DOMAIN user_roles
  /\ LET ins == insert_role(user_roles, user(c), u, role)
     IN /\ user_roles' = ins.rows
        /\ toast' = IF ins.result = "ok" THEN "Success" ELSE ins.result
  /\ UNCHANGED <<books, borrowing_records, profiles, reservations, myReservations, now, book, borrowings, pc, call>>

\* Admin.handleRemoveRole: one DELETE from user_roles
handleRemoveRole(c, u, role) ==
  /\ pc[c] = "idle"
  /\ admin_page(c)
  /\ u \in profiles /\ u \in DOMAIN user_roles
  /\ LET del == delete_role(user_roles, user(c), u, role)
     IN /\ user_roles' = del.rows
        /\ toast' = IF del.result = "ok" THEN "Success" ELSE "Failed"
  /\ UNCHANGED <<books, borrowing_records, profiles, reservations, myReservations, now, book, borrowings, pc, call>>

\* supabase.from('user_roles').insert / .delete sent by any signed-in client
user_roles_insert(c, u, role) ==
  /\ pc[c] = "idle"
  /\ u \in DOMAIN user_roles
  /\ user_roles' = insert_role(user_roles, user(c), u, role).rows
  /\ UNCHANGED <<books, borrowing_records, profiles, reservations, myReservations, now, book, borrowings, pc, call, toast>>

user_roles_delete(c, u, role) ==
  /\ pc[c] = "idle"
  /\ u \in DOMAIN user_roles
  /\ user_roles' = delete_role(user_roles, user(c), u, role).rows
  /\ UNCHANGED <<books, borrowing_records, profiles, reservations, myReservations, now, book, borrowings, pc, call, toast>>

\* the rows of user_roles a caller reads: the accounts whose role rows it is shown
user_roles_select(uid) == {u \in DOMAIN user_roles : user_roles[u] # {} /\ user_roles_select_using(uid, u)}

(* -------------------------------- reads ------------------------------- *)
\* SELECT FROM borrowing_records / reservations: the ids of the rows a caller is shown
borrowing_records_select(uid) ==
  {i \in DOMAIN borrowing_records : borrowing_records_select_using(uid, borrowing_records[i])}

reservations_select(uid) ==
  {i \in DOMAIN reservations : reservations_select_using(uid, reservations[i])}

\* the view as first created, read with its owner's rights
borrowing_records_with_details_owner(uid) == DOMAIN borrowing_records

\* SELECT FROM borrowing_records_with_details: security_invoker = true, the caller's
\* policies on borrowing_records decide the rows (book and profile are joined on)
borrowing_records_with_details(uid) == borrowing_records_select(uid)

(* ------------------------------ catalog ------------------------------- *)
\* bookSchema: total_copies int min 1, available_copies int min 0
bookSchema(row) == row.total_copies >= 1 /\ row.available_copies >= 0

CsvRows ==
  [total_copies : 1..MaxCopies, available_copies : 0..MaxCopies + 1,
   requires_approval : {FALSE}, max_borrow_days : {1}]

FreeBookIds == BookIds \ DOMAIN books

\* CsvUpload.handleFileUpload: rows that pass bookSchema are sent in one INSERT,
\* which the INSERT policy and the CHECK constraints accept or refuse
handleFileUpload(c, b, row) ==
  /\ pc[c] = "idle"
  /\ b \in FreeBookIds
  /\ bookSchema(row)
  /\ IF books_insert_check(user(c)) /\ books_check(row)
       THEN /\ books' = (b :> row) @@ books
            /\ toast' = "Success"
       ELSE /\ toast' = "DatabaseError"
            /\ UNCHANGED books
  /\ UNCHANGED <<borrowing_records, user_roles, profiles, reservations, myReservations, now, book, borrowings, pc, call>>

\* UPDATE books SET total_copies, available_copies WHERE id = b, as the UPDATE policy
\* and the CHECK constraints admit it (a catalog edit of the copy counts)
books_update(c, b, total, avail) ==
  /\ pc[c] = "idle"
  /\ b \in DOMAIN books
  /\ books_update_using(user(c))
  /\ LET row == [books[b] EXCEPT !.total_copies = total, !.available_copies = avail]
     IN /\ row # books[b]
        /\ books_check(row)
        /\ books' = [books EXCEPT ![b] = row]
  /\ UNCHANGED <<borrowing_records, user_roles, profiles, reservations, myReservations, now, book, borrowings, pc, call, toast>>

\* the two procedures are SECURITY DEFINER and callable through rpc by any client
rpc_decrement_available_copies(c, b) ==
  /\ pc[c] = "idle"
  /\ b \in DOMAIN books
  /\ books' = decrement_available_copies(books, b)
  /\ books' # books
  /\ UNCHANGED <<borrowing_records, user_roles, profiles, reservations, myReservations, now, book, borrowings, pc, call, toast>>

rpc_increment_available_copies(c, b) ==
  /\ pc[c] = "idle"
  /\ b \in DOMAIN books
  /\ books' = increment_available_copies(books, b)
  /\ books' # books
  /\ UNCHANGED <<borrowing_records, user_roles, profiles, reservations, myReservations, now, book, borrowings, pc, call, toast>>

\* the rows of a table that survive the delete of book b (book_id ... ON DELETE CASCADE)
cascade(rows, b) == [i \in {j \in DOMAIN rows : rows[j].book_id # b} |-> rows[i]]

\* DELETE FROM books WHERE id = b under the DELETE policy; the borrowing records and
\* the reservations of the book go with it
books_delete(c, b) ==
  /\ pc[c] = "idle"
  /\ b \in DOMAIN books
  /\ IF books_delete_using(user(c))
       THEN /\ books' = [i \in DOMAIN books \ {b} |-> books[i]]
            /\ borrowing_records' = cascade(borrowing_records, b)
            /\ reservations' = cascade(reservations, b)
       ELSE UNCHANGED <<books, borrowing_records, reservations>>
  /\ UNCHANGED <<user_roles, profiles, myReservations, now, book, borrowings, pc, call, toast>>

(* --------------------- the store's interface, used directly ------------ *)
\* supabase.from('borrowing_records').insert({user_id, book_id, status}) sent by a
\* signed-in client with values of its choice: the INSERT policy decides, and a
\* refused insert creates no row
borrowing_records_insert(c, uid, b, status) ==
  /\ pc[c] = "idle"
  /\ b \in DOMAIN books
  /\ LET row == new_record(uid, b, status)
     IN IF borrowing_records_insert_check(user(c), row)
          THEN /\ FreeRecIds # {}
               /\ borrowing_records' = (next_record_id :> row) @@ borrowing_records
          ELSE UNCHANGED borrowing_records
  /\ UNCHANGED <<books, user_roles, profiles, reservations, myReservations, now, book, borrowings, pc, call, toast>>

\* supabase.from('borrowing_records').update({ status }).eq('id', r) sent by a signed-in
\* client: the UPDATE policies choose the rows, no policy checks the new values
borrowing_records_update(c, r, status) ==
  /\ pc[c] = "idle"
  /\ r \in DOMAIN borrowing_records
  /\ borrowing_records' = update_record(borrowing_records, user(c), r,
                                        [borrowing_records[r] EXCEPT !.status = status])
  /\ UNCHANGED <<books, user_roles, profiles, reservations, myReservations, now, book, borrowings, pc, call, toast>>

(* ------------------------ counter requests in flight ------------------- *)
\* the rows a book can have: any counts the CHECK constraints admit
BookRows ==
  {row \in [total_copies : 0..MaxCopies + 1, available_copies : 0..MaxCopies + 1,
            requires_approval : {FALSE}, max_borrow_days : {1}] : books_check(row)}

CounterProcedures == {"decrement_available_copies", "increment_available_copies"}

\* the row as it was when the request was sent
row_read_at_call(bs, frame) == [bs EXCEPT ![frame.bookId].available_copies = frame.avail0]

\* UPDATE public.books SET available_copies = f(available_copies) WHERE id = book_id is
\* one statement: it computes from the row as stored at the moment it runs
row_read(bs, frame) == bs

\* supabase.rpc(fn, { book_id }): the request leaves the client
rpc_call(c, fn, b) ==
  /\ pc[c] = "idle"
  /\ b \in DOMAIN books
  /\ pc' = [pc EXCEPT ![c] = fn]
  /\ call' = [call EXCEPT ![c] = [op |-> fn, recordId |-> 0, bookId |-> b, status0 |-> "none",
                                   avail0 |-> books[b].available_copies]]
  /\ UNCHANGED <<books, borrowing_records, user_roles, profiles, reservations, myReservations, now, book, borrowings, toast>>

\* the request reaches the store and the procedure runs; it has no RAISE and
\* returns void
rpc_exec(c) ==
  /\ pc[c] \in CounterProcedures
  /\ books' = IF pc[c] = "decrement_available_copies"
                THEN decrement_available_copies(row_read(books, call[c]), call[c].bookId)
                ELSE increment_available_copies(row_read(books, call[c]), call[c].bookId)
  /\ pc' = [pc EXCEPT ![c] = "rpc_done"]
  /\ UNCHANGED <<borrowing_records, user_roles, profiles, reservations, myReservations, now, book, borrowings, call, toast>>

(* --------------------------- specifications --------------------------- *)
\* the client handlers, for given sets of borrowers (BookDetail, MyBorrowings,
\* Dashboard) and of staff (BorrowingManagement); F holds the outcomes an rpc
\* request may have (TRUE: it reaches the store, FALSE: it fails on the way)
Handlers(B, S, F) ==
  \/ \E c \in B, b \in BookIds : fetchBook(c, b)
  \/ \E c \in B : handleBorrow(c)
  \/ \E c \in S, r \in RecIds : fetchBorrowings(c, r)
  \/ \E c \in B, r \in RecIds : fetchMyBorrowings(c, r)
  \/ \E c \in S, r \in RecIds : handleApprove_update(c, r)
  \/ \E c \in S, ok \in F : handleApprove_rpc(c, ok)
  \/ \E c \in S, r \in RecIds : handleReject(c, r)
  \/ \E c \in S, r \in RecIds : staff_handleReturn_update(c, r)
  \/ \E c \in S, ok \in F : staff_handleReturn_rpc(c, ok)
  \/ \E c \in B, r \in RecIds : owner_handleReturn_update(c, r)
  \/ \E c \in B, ok \in F : owner_handleReturn_rpc(c, ok)

\* the store's interface used directly, and the catalog upload
Store(B, S) ==
  \/ \E c \in S, b \in BookIds, row \in CsvRows : handleFileUpload(c, b, row)
  \/ \E c \in S, b \in BookIds, t \in 0..MaxCopies, a \in 0..MaxCopies + 1 : books_update(c, b, t, a)
  \/ \E c \in B, b \in BookIds : rpc_decrement_available_copies(c, b)
  \/ \E c \in B, b \in BookIds : rpc_increment_available_copies(c, b)

\* one session (a librarian, who may borrow like any account) runs the circulation
\* handlers while a student and an admin use the store directly, between its requests
\* too: every writer of books, every request reaching the store
Next ==
  \/ Handlers({"l1"}, {"l1"}, {TRUE})
  \/ Store({"s1"}, {"l2"})

Spec == Init /\ [][Next]_vars

\* one borrower and two members of staff, the circulation handlers only, every
\* request reaching the store
NextUI == Handlers({"s1"}, {"l1", "l2"}, {TRUE})

SpecUI == Init /\ [][NextUI]_vars

\* every account inserting borrowing records of its choice, next to the page that
\* inserts them for the student, over a catalog with and without approval
NextInsert ==
  \/ \E c \in Actors, uid \in Actors, b \in BookIds, status \in borrowing_status :
       borrowing_records_insert(c, uid, b, status)
  \/ \E b \in BookIds : fetchBook("s1", b)
  \/ handleBorrow("s1")
  \/ \E b \in BookIds, row \in CsvRows : handleFileUpload("l2", b, row)

SpecInsert == Init /\ [][NextInsert]_vars

\* the circulation handlers of one borrower and one librarian, where a counter
\* request may fail on its way to the store
NextFault == Handlers({"s1"}, {"l1"}, BOOLEAN)

SpecFault == Init /\ [][NextFault]_vars

\* the circulation handlers of the student and one librarian, and the Dashboard's
\* Renew in two sessions of the student
NextRenew ==
  \/ Handlers({"s1"}, {"l1"}, {TRUE})
  \/ \E r \in RecIds : fetchMyBorrowings("s1b", r)
  \/ \E c \in {"s1", "s1b"}, r \in RecIds : handleRenew(c, r)

SpecRenew == Init /\ [][NextRenew]_vars

\* one book with any admissible counts, and every session sending one counter request
InitRace == (\E row \in BookRows : books = ("b1" :> row)) /\ InitRest

NextRace ==
  \/ \E c \in Clients, fn \in CounterProcedures, b \in BookIds : rpc_call(c, fn, b)
  \/ \E c \in Clients : rpc_exec(c)

SpecRace == InitRace /\ [][NextRace]_vars

\* two sessions of the student reserving, one of them cancelling from its Dashboard,
\* a librarian editing the available count, and accounts using the reservations table directly
NextReserve ==
  \/ \E c \in {"s1", "s1b"}, b \in BookIds : fetchBook(c, b)
  \/ \E c \in {"s1", "s1b"} : handleReserve(c)
  \/ \E v \in ResIds : fetchUserData("s1", v)
  \/ \E v \in ResIds : handleCancelReservation("s1", v)
  \/ \E b \in DOMAIN books, a \in 0..MaxCopies : books_update("l2", b, books[b].total_copies, a)
  \/ \E c \in {"s1", "l1"}, uid \in {"s1", "l1"}, b \in BookIds, status \in reservation_status :
       reservations_insert(c, uid, b, status)
  \/ \E c \in {"s1", "l1"}, v \in ResIds, status \in reservation_status : reservations_update(c, v, status)

SpecReserve == Init /\ [][NextReserve]_vars

\* the pages alone: two sessions of the student reserving, one of them cancelling
\* from its Dashboard, and a librarian editing the available count
NextReserveUI ==
  \/ \E c \in {"s1", "s1b"}, b \in BookIds : fetchBook(c, b)
  \/ \E c \in {"s1", "s1b"} : handleReserve(c)
  \/ \E v \in ResIds : fetchUserData("s1", v)
  \/ \E v \in ResIds : handleCancelReservation("s1", v)
  \/ \E b \in DOMAIN books, a \in 0..MaxCopies : books_update("l2", b, books[b].total_copies, a)

SpecReserveUI == Init /\ [][NextReserveUI]_vars

\* sign-up of a new account, grants and revocations of roles from the Admin page and
\* by direct requests of the accounts that start without admin, and every account
\* writing to the catalog
NextAccess ==
  \/ \E u \in NewAccounts : on_auth_user_created(u)
  \/ \E c \in Actors, u \in {"s1", "l2", "n1"}, role \in Roles : handleRoleChange(c, u, role)
  \/ \E c \in Actors, u \in {"s1", "l2", "n1"}, role \in Roles : handleRemoveRole(c, u, role)
  \/ \E c \in {"s1", "l1"}, u \in {"s1", "l2"}, role \in Roles : user_roles_insert(c, u, role)
  \/ \E c \in {"s1", "l1"}, u \in {"s1", "l2"}, role \in Roles : user_roles_delete(c, u, role)
  \/ \E c \in Actors, b \in BookIds, row \in CsvRows : handleFileUpload(c, b, row)
  \/ \E c \in Actors, b \in BookIds, t \in 0..MaxCopies, a \in 0..MaxCopies : books_update(c, b, t, a)
  \/ \E c \in Actors, b \in BookIds : books_delete(c, b)

SpecAccess == Init /\ [][NextAccess]_vars

\* accounts inserting borrowing records and reservations, the pages that list them,
\* and the admin granting and revoking the librarian role of two accounts
NextRead ==
  \/ \E c \in {"s1", "l1"}, uid \in {"s1", "l1"}, b \in BookIds, status \in {"pending", "active"} :
       borrowing_records_insert(c, uid, b, status)
  \/ \E c \in {"s1", "l1"}, uid \in {"s1", "l1"}, b \in BookIds, status \in {"active"} :
       reservations_insert(c, uid, b, status)
  \/ \E c \in {"s1", "l1"}, r \in RecIds : fetchBorrowings(c, r)
  \/ \E c \in {"s1", "l1"}, r \in RecIds : fetchMyBorrowings(c, r)
  \/ \E c \in {"s1", "l1"}, v \in ResIds : fetchUserData(c, v)
  \/ \E u \in {"s1", "l1"} : handleRoleChange("l2", u, "librarian")
  \/ \E u \in {"s1", "l1"} : handleRemoveRole("l2", u, "librarian")

SpecRead == Init /\ [][NextRead]_vars

\* the student borrowing, a librarian approving and rejecting, and the student
\* updating the status of borrowing records directly
NextOwnerUpdate ==
  \/ \E b \in BookIds : fetchBook("s1", b)
  \/ handleBorrow("s1")
  \/ \E r \in RecIds : fetchBorrowings("l1", r)
  \/ \E r \in RecIds : handleApprove_update("l1", r)
  \/ handleApprove_rpc("l1", TRUE)
  \/ \E r \in RecIds : handleReject("l1", r)
  \/ \E r \in RecIds, status \in {"active", "returned"} : borrowing_records_update("s1", r, status)

SpecOwnerUpdate == Init /\ [][NextOwnerUpdate]_vars

\* the catalog uploaded and deleted by staff, and the student borrowing and reserving
NextDelete ==
  \/ \E b \in BookIds, row \in CsvRows : handleFileUpload("l2", b, row)
  \/ \E b \in BookIds : fetchBook("s1", b)
  \/ handleBorrow("s1")
  \/ handleReserve("s1")
  \/ \E c \in {"l1", "l2"}, b \in BookIds : books_delete(c, b)

SpecDelete == Init /\ [][NextDelete]_vars

\* one session runs the circulation handlers while the student calls the counter
\* procedures directly
NextCounter ==
  \/ Handlers({"l1"}, {"l1"}, {TRUE})
  \/ \E b \in BookIds : rpc_decrement_available_copies("s1", b)
  \/ \E b \in BookIds : rpc_increment_available_copies("s1", b)

SpecCounter == Init /\ [][NextCounter]_vars

\* one account borrowing, reserving and cancelling, a librarian running the
\* circulation, and the student calling the counter procedures
NextHold ==
  \/ Handlers({"l1"}, {"l1"}, {TRUE})
  \/ handleReserve("l1")
  \/ \E v \in ResIds : fetchUserData("l1", v)
  \/ \E v \in ResIds : handleCancelReservation("l1", v)
  \/ \E b \in BookIds : rpc_decrement_available_copies("s1", b)
  \/ \E b \in BookIds : rpc_increment_available_copies("s1", b)

SpecHold == Init /\ [][NextHold]_vars

\* the student's requests approved by a librarian, and two sessions of the student
\* renewing from lists loaded at any earlier time
NextRenewOnly ==
  \/ \E b \in BookIds : fetchBook("s1", b)
  \/ handleBorrow("s1")
  \/ \E r \in RecIds : fetchBorrowings("l1", r)
  \/ \E r \in RecIds : handleApprove_update("l1", r)
  \/ handleApprove_rpc("l1", TRUE)
  \/ \E c \in {"s1", "s1b"}, r \in RecIds : fetchMyBorrowings(c, r)
  \/ \E c \in {"s1", "s1b"}, r \in RecIds : handleRenew(c, r)

SpecRenewOnly == Init /\ [][NextRenewOnly]_vars

(* ============================== properties ============================ *)
Status(r) == borrowing_records[r].status
BookOf(r) == borrowing_records[r].book_id
Avail(b) == books[b].available_copies
ActiveCount(b) == Cardinality({r \in DOMAIN borrowing_records : BookOf(r) = b /\ Status(r) = "active"})
NewRecords == DOMAIN borrowing_records' \ DOMAIN borrowing_records

\* C1: every book row has 0 <= available_copies <= total_copies in every reachable state
C1_CopiesWithinBounds ==
  \A b \in DOMAIN books :
    0 <= books[b].available_copies /\ books[b].available_copies <= books[b].total_copies

\* an upload was refused by the store after a copy had been handed out and taken back
C1_Witness ==
  /\ toast = "DatabaseError"
  /\ \E r \in DOMAIN borrowing_records : Status(r) = "returned"
  /\ \E b \in DOMAIN books : Avail(b) = books[b].total_copies

\* no borrow/approve/reject/return call on book b is between its two requests
Quiescent(b) == \A c \in Clients : pc[c] = "idle" \/ call[c].bookId # b

\* C2: a book that starts with available_copies + active records = total_copies has
\* that equality again whenever no circulation call on it is in progress
C2_CopiesMatchActiveRecords ==
  \A b \in DOMAIN books :
    (b \in DOMAIN InitBooks
       /\ InitBooks[b].available_copies = InitBooks[b].total_copies
       /\ Quiescent(b))
      => Avail(b) + ActiveCount(b) = books[b].total_copies

Adjacency ==
  {<<"pending", "active">>, <<"pending", "rejected">>, <<"active", "returned">>}

\* C3: the stored status of a record only ever moves pending->active, pending->rejected
\* or active->returned, and a record starts pending or active
C3_StatusPath ==
  [][/\ \A r \in DOMAIN borrowing_records :
          borrowing_records'[r].status # Status(r)
            => <<Status(r), borrowing_records'[r].status>> \in Adjacency
     /\ \A r \in NewRecords : borrowing_records'[r].status \in {"pending", "active"}]_vars

\* C4: when an Approve has succeeded on one record of a book that had one copy left,
\* an Approve on another pending record of that book that started while that copy was
\* still there fails with NoCopiesAvailable, its record stays pending, the first record
\* stays active and available_copies ends at 0
C4_OneOfTwoApprovesWins ==
  [][\A c1, c2 \in Clients : \A r1 \in DOMAIN borrowing_records :
       ( /\ c1 # c2
         /\ handleApprove_rpc(c2, TRUE)
         /\ call[c2].status0 = "pending" /\ call[c2].avail0 = 1
         /\ r1 # call[c2].recordId /\ BookOf(r1) = call[c2].bookId
         /\ pc[c1] = "idle" /\ toast = "Success"
         /\ Status(r1) = "active" /\ borrowing_records[r1].approved_by = user(c1)
         /\ Avail(call[c2].bookId) = 0 )
       => ( /\ toast' = "NoCopiesAvailable"
            /\ borrowing_records'[call[c2].recordId].status = "pending"
            /\ borrowing_records'[r1].status = "active"
            /\ books'[call[c2].bookId].available_copies = 0 )]_vars

\* C5: an Approve issued on a record that an earlier Approve already made active fails
\* with InvalidTransition and leaves available_copies as it is
C5_SecondApproveRefused ==
  [][\A c \in Clients :
       (handleApprove_rpc(c, TRUE) /\ call[c].status0 = "active")
       => (toast' = "InvalidTransition" /\ books' = books)]_vars

\* C6: an Approve on a pending record of a book with no copy left fails with
\* NoCopiesAvailable, the record is still pending and available_copies still 0
C6_ApproveWithoutCopies ==
  [][\A c \in Clients :
       (handleApprove_rpc(c, TRUE) /\ call[c].status0 = "pending" /\ call[c].avail0 = 0)
       => ( /\ toast' = "NoCopiesAvailable"
            /\ borrowing_records'[call[c].recordId].status = "pending"
            /\ books'[call[c].bookId].available_copies = 0 )]_vars

\* C7: no state shows an Approve half applied: the record turned active by an Approve
\* that found it pending while the book still has the copies it had before
C7_ApproveAllOrNothing ==
  \A c \in Clients :
    (pc[c] = "approve_rpc" /\ call[c].status0 = "pending" /\ call[c].avail0 > 0)
      => ~(Status(call[c].recordId) = "active" /\ Avail(call[c].bookId) = call[c].avail0)

\* C8: a borrow of a book that needs no approval and has a copy succeeds: a record with
\* status active, borrow_date = now and due_date = now + max_borrow_days is created and
\* available_copies drops by one
C8_DirectBorrow ==
  [][\A c \in Clients :
       ( /\ handleBorrow(c)
         /\ ~books[book[c].id].requires_approval
         /\ Avail(book[c].id) > 0 )
       => ( /\ toast' = "Success"
            /\ \E r \in NewRecords :
                 /\ borrowing_records'[r].status = "active"
                 /\ borrowing_records'[r].user_id = user(c)
                 /\ borrowing_records'[r].book_id = book[c].id
                 /\ borrowing_records'[r].borrow_date = now
                 /\ borrowing_records'[r].due_date = now + books[book[c].id].max_borrow_days
            /\ books'[book[c].id].available_copies = Avail(book[c].id) - 1 )]_vars

\* C9: a borrow of a book that needs no approval and whose stored available_copies is 0
\* is refused with NoCopiesAvailable, no active record is created and the count stays 0
C9_DirectBorrowWithoutCopies ==
  [][\A c \in Clients :
       ( /\ handleBorrow(c)
         /\ ~books[book[c].id].requires_approval
         /\ Avail(book[c].id) = 0 )
       => ( /\ toast' = "NoCopiesAvailable"
            /\ \A r \in NewRecords : borrowing_records'[r].status # "active"
            /\ books'[book[c].id].available_copies = 0 )]_vars

\* C10: a borrow of a book that needs approval creates one record with status pending
\* for the caller and leaves the available_copies of every book unchanged
C10_RequestPending ==
  [][\A c \in Clients :
       (handleBorrow(c) /\ books[book[c].id].requires_approval)
       => ( /\ \E r \in NewRecords :
                 /\ NewRecords = {r}
                 /\ borrowing_records'[r].status = "pending"
                 /\ borrowing_records'[r].user_id = user(c)
                 /\ borrowing_records'[r].book_id = book[c].id
            /\ \A r \in DOMAIN borrowing_records : borrowing_records'[r] = borrowing_records[r]
            /\ books' = books )]_vars

\* a request for a title that needs approval went through while the catalog holds
\* another title and the requested one had copies out
C10_Witness ==
  /\ toast = "Success"
  /\ DOMAIN books = BookIds
  /\ \E r \in DOMAIN borrowing_records :
       /\ Status(r) = "pending"
       /\ books[BookOf(r)].requires_approval
       /\ \E q \in DOMAIN borrowing_records : q < r /\ Status(q) = "active"

C12_InsertOwnPendingOnly ==
  [][/\ \A r \in NewRecords : borrowing_records'[r].status = "pending"
     /\ \A c \in Clients :
          handleBorrow(c) => \A r \in NewRecords : borrowing_records'[r].user_id = user(c)
     /\ \A c \in Clients, uid \in Actors, b \in BookIds, status \in borrowing_status :
          (borrowing_records' # borrowing_records /\ borrowing_records_insert(c, uid, b, status))
            => /\ uid = user(c) /\ status = "pending"
               /\ \A r \in NewRecords : borrowing_records'[r] = new_record(user(c), b, "pending")]_vars

\* records of a member of staff and of the student exist, and the page's insert
\* of an active record has just been refused
C12_Witness ==
  /\ toast = "RowLevelSecurity"
  /\ \E r, q \in DOMAIN borrowing_records :
       /\ borrowing_records[r].user_id = "l2"
       /\ borrowing_records[q].user_id = "s1"
       /\ Status(r) = "pending" /\ Status(q) = "pending"

\* C13: a Return that finds the record already returned (another Return got there
\* first) is refused with InvalidTransition and increments nothing
C13_ReturnOnlyActive ==
  [][\A c \in Clients :
       ( /\ staff_handleReturn_rpc(c, TRUE) \/ owner_handleReturn_rpc(c, TRUE)
         /\ call[c].status0 = "returned" )
       => (toast' = "InvalidTransition" /\ books' = books)]_vars

\* C14: a Return whose increment request fails reports an error and leaves the record's
\* status and the book's available_copies as they were before the Return
C14_ReturnNoPartialMutation ==
  [][\A c \in Clients :
       (staff_handleReturn_rpc(c, FALSE) \/ owner_handleReturn_rpc(c, FALSE))
       => ( /\ toast' # "Success"
            /\ borrowing_records'[call[c].recordId].status = call[c].status0
            /\ books'[call[c].bookId].available_copies = call[c].avail0 )]_vars

\* C15: a Renew on a record whose stored renewal_count is 2 or whose stored status is
\* not active is refused and leaves the stored record as it is, whatever snapshot
\* of the record the client holds
C15_RenewRefused ==
  [][\A c \in Clients : \A r \in DOMAIN borrowing_records :
       ( /\ handleRenew(c, r)
         /\ borrowing_records[r].renewal_count >= 2 \/ Status(r) # "active" )
       => (toast' # "Success" /\ borrowing_records' = borrowing_records)]_vars

\* C16: a Renew that reports success raises the stored renewal_count by one and the
\* stored due_date by max_borrow_days, both measured against the stored values
C16_RenewAddsToStored ==
  [][\A c \in Clients : \A r \in DOMAIN borrowing_records :
       (handleRenew(c, r) /\ toast' = "Success")
       => /\ borrowing_records'[r].renewal_count = borrowing_records[r].renewal_count + 1
          /\ borrowing_records'[r].due_date =
               borrowing_records[r].due_date + books[BookOf(r)].max_borrow_days]_vars

\* C17: for a book with 0 <= a <= t, Decrement sets available_copies to max(a - 1, 0)
\* and Increment sets it to min(a + 1, t), nothing else changes and the call completes
C17_CounterFormulas ==
  [][\A c \in Clients :
       rpc_exec(c)
       => LET b == call[c].bookId
              a == books[b].available_copies
              t == books[b].total_copies
          IN /\ books'[b].available_copies =
                  IF call[c].op = "decrement_available_copies"
                    THEN (IF a - 1 > 0 THEN a - 1 ELSE 0)
                    ELSE (IF a + 1 < t THEN a + 1 ELSE t)
             /\ books'[b].total_copies = t
             /\ DOMAIN books' = DOMAIN books
             /\ \A o \in DOMAIN books : o # b => books'[o] = books[o]
             /\ pc'[c] = "rpc_done"]_vars

\* an Increment has run on a book that had every copy available and a Decrement on
\* a book that had none
C17_Witness ==
  \E c, d \in Clients :
    /\ pc[c] = "rpc_done" /\ call[c].op = "increment_available_copies"
    /\ call[c].avail0 = books[call[c].bookId].total_copies
    /\ pc[d] = "rpc_done" /\ call[d].op = "decrement_available_copies"
    /\ call[d].avail0 = 0
    /\ Avail(call[d].bookId) = 0

\* the sessions that sent a counter request
Callers == {c \in Clients : pc[c] # "idle"}

\* C18: k Decrements sent while available_copies was a end at max(a - k, 0) and k
\* Increments at min(a + k, total_copies), once all of them have run, in whatever
\* order they reach the store
C18_NoLostUpdate ==
  \A b \in DOMAIN books, a \in 0..MaxCopies + 1, fn \in CounterProcedures :
    ( /\ Callers # {}
      /\ \A c \in Callers :
           /\ pc[c] = "rpc_done"
           /\ call[c].op = fn /\ call[c].bookId = b /\ call[c].avail0 = a )
    => LET k == Cardinality(Callers)
           t == books[b].total_copies
       IN Avail(b) = IF fn = "decrement_available_copies"
                       THEN (IF a - k > 0 THEN a - k ELSE 0)
                       ELSE (IF a + k < t THEN a + k ELSE t)

\* two Decrements were sent while two copies were available and both have run
C18_Witness ==
  \E c, d \in Clients :
    /\ c # d /\ Callers = {c, d}
    /\ pc[c] = "rpc_done" /\ pc[d] = "rpc_done"
    /\ call[c].op = "decrement_available_copies" /\ call[d].op = "decrement_available_copies"
    /\ call[c].avail0 = 2 /\ call[d].avail0 = 2
    /\ Avail("b1") = 0

(* ------------------------------- C19 ---------------------------------- *)
\* the active reservations of actor uid on book b
ActiveReservations(rows, uid, b) ==
  {v \in DOMAIN rows : rows[v].user_id = uid /\ rows[v].book_id = b /\ rows[v].status = "active"}

\* C19: after every step an actor holds at most one active reservation on a book, and
\* a Reserve for a pair that has an active reservation, sent from a stale page or next
\* to another session's Reserve, is answered with the constraint's error and leaves
\* the reservations as they were.
C19_OneActiveReservation ==
  [][/\ \A uid \in Actors, b \in BookIds : Cardinality(ActiveReservations(reservations', uid, b)) <= 1
     /\ \A c \in Clients :
          (handleReserve(c) /\ ActiveReservations(reservations, user(c), book[c].id) # {})
            => (reservations' = reservations /\ toast' = "UniqueViolation")]_vars

\* a second Reserve of the student on the same book was refused
C19_Witness ==
  /\ toast = "UniqueViolation"
  /\ Cardinality(ActiveReservations(reservations, "s1", "b1")) = 1

(* ------------------------------- C20 ---------------------------------- *)
\* C20: a Cancel by the owner of a reservation that is active in the store sets it
\* to cancelled and reports success.
C20_CancelSucceeds ==
  [][\A c \in Clients, v \in ResIds :
       (/\ v \in DOMAIN reservations
        /\ reservations[v].status = "active"
        /\ reservations[v].user_id = user(c)
        /\ handleCancelReservation(c, v))
         => (reservations'[v].status = "cancelled" /\ toast' = "Success")]_vars

(* ------------------------------- C21 ---------------------------------- *)
\* the roles an account holds (none for an account without role rows)
RolesOf(uid) == IF uid \in DOMAIN user_roles THEN user_roles[uid] ELSE {}

\* C21: whatever roles the accounts hold, every account may read books; a request
\* that inserts or updates a book goes through iff the caller holds librarian or
\* admin, and one that deletes a book iff the caller holds admin.
C21_BooksByRole ==
  \A c \in Actors, b \in BookIds :
    /\ books_select_using(user(c))
    /\ b \notin DOMAIN books =>
         ((ENABLED ((\E row \in CsvRows : handleFileUpload(c, b, row)) /\ books' # books))
            <=> RolesOf(user(c)) \cap {"librarian", "admin"} # {})
    /\ b \in DOMAIN books =>
         /\ (ENABLED ((\E t \in 0..MaxCopies, a \in 0..MaxCopies : books_update(c, b, t, a)) /\ books' # books))
              <=> RolesOf(user(c)) \cap {"librarian", "admin"} # {}
         /\ (ENABLED (books_delete(c, b) /\ books' # books)) <=> "admin" \in RolesOf(user(c))

\* a book was deleted, an upload was refused, and the student's roles were all revoked
C21_Witness ==
  /\ "b1" \notin DOMAIN books
  /\ toast = "DatabaseError"
  /\ RolesOf("s1") = {}

(* ------------------------------- C22 ---------------------------------- *)
\* C22: whatever roles the accounts hold, a caller is shown a borrowing record or a
\* reservation, from the tables and from the view borrowing_records_with_details,
\* iff the row is its own or it holds librarian or admin; so an account with the
\* student role only is shown no row of another account.
C22_ReadOwnOrStaff ==
  \A uid \in Actors :
    LET staff == RolesOf(uid) \cap {"librarian", "admin"} # {}
    IN /\ borrowing_records_select(uid) =
            {i \in DOMAIN borrowing_records : borrowing_records[i].user_id = uid \/ staff}
       /\ borrowing_records_with_details(uid) =
            {i \in DOMAIN borrowing_records : borrowing_records[i].user_id = uid \/ staff}
       /\ reservations_select(uid) =
            {i \in DOMAIN reservations : reservations[i].user_id = uid \/ staff}
       /\ \A r \in RecIds : listed_row(borrowing_records, uid, r) # NoRow
            => (borrowing_records[r].user_id = uid \/ staff)
       /\ \A v \in ResIds : listed_reservation(reservations, uid, v) # NoReservation
            => reservations[v].user_id = uid

\* the student, holding student only, and the librarian each have a record and a
\* reservation; the student's page lists its own record, the librarian's the student's
C22_Witness ==
  /\ RolesOf("s1") = {"student"}
  /\ \E i, j \in DOMAIN borrowing_records :
       /\ borrowing_records[i].user_id = "s1" /\ borrowing_records[j].user_id = "l1"
       /\ borrowings["s1"].id = i /\ borrowings["l1"].id = i
  /\ \E i, j \in DOMAIN reservations :
       reservations[i].user_id = "s1" /\ reservations[j].user_id = "l1"

(* ------------------------------- C23 ---------------------------------- *)
\* a request of caller c that inserts or deletes a role row goes through
RoleWriteGoesThrough(c) ==
  ENABLED ((\E u \in DOMAIN user_roles, role \in Roles :
              user_roles_insert(c, u, role) \/ user_roles_delete(c, u, role))
           /\ user_roles' # user_roles)

\* C23 as stated: a caller is shown the role rows of its own account only, and a
\* request that inserts or deletes a role row goes through only for an admin.
C23_RolesOwnerOnly ==
  \A c \in Actors :
    /\ user_roles_select(user(c)) \subseteq {user(c)}
    /\ RoleWriteGoesThrough(c) => "admin" \in RolesOf(user(c))

\* C23 as the policies have it: a caller is shown the role rows of its own account,
\* and those of every account iff it holds admin; a request that inserts or deletes
\* a role row goes through iff the caller holds admin.
C23_RolesOwnerOrAdmin ==
  \A c \in Actors :
    /\ user_roles_select(user(c)) =
         {u \in DOMAIN user_roles : user_roles[u] # {} /\ (u = user(c) \/ "admin" \in RolesOf(user(c)))}
    /\ RoleWriteGoesThrough(c) <=> "admin" \in RolesOf(user(c))

\* the admin granted librarian to the student: the admin is shown the student's role
\* rows, the student and the librarian only their own
C23_Witness ==
  /\ toast = "Success"
  /\ "librarian" \in RolesOf("s1") /\ "admin" \notin RolesOf("s1")
  /\ "s1" \in user_roles_select("l2")
  /\ user_roles_select("s1") = {"s1"}
  /\ user_roles_select("l1") = {"l1"}

(* ------------------------------- C24 ---------------------------------- *)
\* C24: an update that moves a borrowing record out of pending is sent by a caller
\* holding librarian or admin.
C24_OnlyStaffLeavePending ==
  [][\A c \in Clients, r \in RecIds :
       (/\ r \in DOMAIN borrowing_records
        /\ borrowing_records[r].status = "pending"
        /\ borrowing_records'[r].status # "pending"
        /\ \E status \in borrowing_status : borrowing_records_update(c, r, status))
         => RolesOf(user(c)) \cap {"librarian", "admin"} # {}]_vars

(* ------------------------------- C25 ---------------------------------- *)
\* C25: a sign-up gives the new account a profile and the student role and nothing
\* else, and after every step each account signed up holds at least one role.
C25_AtLeastOneRole ==
  [][/\ \A u \in NewAccounts :
          on_auth_user_created(u) => (u \in profiles' /\ user_roles'[u] = {"student"})
     /\ \A u \in DOMAIN user_roles' : user_roles'[u] # {}]_vars

(* ------------------------------- C26 ---------------------------------- *)
\* book b has an active borrowing record or an active reservation
InUse(b) ==
  \/ \E i \in DOMAIN borrowing_records :
       borrowing_records[i].book_id = b /\ borrowing_records[i].status = "active"
  \/ \E v \in DOMAIN reservations :
       reservations[v].book_id = b /\ reservations[v].status = "active"

\* C26: no step removes a borrowing record, and no step deletes a book that has an
\* active borrowing record or an active reservation.
C26_HistoryKept ==
  [][/\ \A i \in DOMAIN borrowing_records :
          i \in DOMAIN borrowing_records' /\ borrowing_records'[i].user_id = borrowing_records[i].user_id
     /\ \A b \in DOMAIN books : InUse(b) => b \in DOMAIN books']_vars

(* ------------------------------- C27 ---------------------------------- *)
\* C27: a Decrement or Increment request sent on its own by an account holding the
\* student role only, no borrowing record changing with it, leaves the books as
\* they were.
C27_CounterNotForStudents ==
  [][\A c \in Clients, b \in BookIds :
       (/\ books' # books
        /\ RolesOf(user(c)) \subseteq {"student"}
        /\ rpc_decrement_available_copies(c, b) \/ rpc_increment_available_copies(c, b))
         => borrowing_records' # borrowing_records]_vars

(* ------------------------------- C28 ---------------------------------- *)
\* C28: a Reject changes no book, and after every step a book that started with all
\* its copies and whose records are all pending or rejected has all its copies
\* again once no call is in progress: no copy is out on account of a rejected record.
C28_RejectHoldsNoCopy ==
  [][/\ \A c \in Clients, r \in RecIds : handleReject(c, r) => books' = books
     /\ \A b \in DOMAIN InitBooks :
          (/\ InitBooks[b].available_copies = InitBooks[b].total_copies
           /\ \A c \in Clients : pc'[c] = "idle"
           /\ \A r \in DOMAIN borrowing_records' :
                borrowing_records'[r].book_id = b
                  => borrowing_records'[r].status \in {"pending", "rejected"})
            => books'[b].available_copies = books'[b].total_copies]_vars

(* ------------------------------- C29 ---------------------------------- *)
\* C29: after every step no reservation is fulfilled or expired; a step that changes
\* the reservations is a Reserve or a Cancel, so the borrowing and the counter
\* operations leave them alone; and an active reservation stops being active only
\* by a Cancel of its owner or of staff, whatever copies have become available.
C29_ReservationsLeftAlone ==
  [][/\ \A v \in DOMAIN reservations' : reservations'[v].status \notin {"fulfilled", "expired"}
     /\ reservations' # reservations =>
          /\ \E c \in Clients : handleReserve(c) \/ \E v \in ResIds : handleCancelReservation(c, v)
          /\ \A v \in DOMAIN reservations :
               (reservations[v].status = "active" /\ reservations'[v] # reservations[v])
                 => /\ reservations'[v].status = "cancelled"
                    /\ \E c \in Clients :
                         /\ handleCancelReservation(c, v)
                         /\ reservations[v].user_id = user(c)
                              \/ RolesOf(user(c)) \cap {"librarian", "admin"} # {}]_vars

\* a reservation made while no copy was left is still active after the copy came back
C29_Witness ==
  /\ \A c \in Clients : pc[c] = "idle"
  /\ \E v \in DOMAIN reservations :
       /\ reservations[v].status = "active"
       /\ Avail(reservations[v].book_id) >= 1
       /\ \E r \in DOMAIN borrowing_records :
            BookOf(r) = reservations[v].book_id /\ Status(r) = "returned"

(* ------------------------------- C30 ---------------------------------- *)
\* C30: every stored record has renewal_count in 0..2, and once it has a due date,
\* that date is at most the one set when it was handed out (borrow_date +
\* max_borrow_days) plus 2 * max_borrow_days, whatever lists the renewing sessions hold.
C30_RenewalsBounded ==
  \A r \in DOMAIN borrowing_records :
    LET row == borrowing_records[r]
        days == books[row.book_id].max_borrow_days
    IN /\ row.renewal_count \in 0..2
       /\ row.due_date # NoDate => row.due_date <= (row.borrow_date + days) + 2 * days

\* a session renewed from a list older than the other session's second renewal: the
\* stored count is 1 again while the other session's list shows 2
C30_Witness ==
  \E r \in DOMAIN borrowing_records :
    /\ toast = "Success"
    /\ borrowing_records[r].renewal_count = 1
    /\ borrowings["s1"].id = r /\ borrowings["s1"].renewal_count = 2
    /\ borrowings["s1b"].id = r /\ borrowings["s1b"].renewal_count = 1

====
